---- MODULE Spec2Model ----
(***************************************************************************)
(* Pocket Monet: the transformation client (services/ai-transform.ts) and  *)
(* the result screen (app/result.tsx), with the last-result pointer that   *)
(* the capture screen (app/index.tsx) reads back.                          *)
(*                                                                         *)
(* JavaScript values are modelled as strings; the value `undefined` (and   *)
(* `null`, which the code never distinguishes from it) is the string       *)
(* Undefined, which is not a member of any set of messages or references.  *)
(***************************************************************************)
EXTENDS Integers, Sequences, FiniteSets, TLC

\* ------------------------------------------------------------------ bounds
\* longest `data` list of a response body
MaxData == 1
\* calls of the transformation client in one run (first attempt + retries)
MaxRequests == 2
\* presses of Save in one visit of the result screen
MaxSaves == 2

\* ------------------------------------------------------- JavaScript values
Undefined == "<undefined>"

\* JavaScript truthiness of a string-or-undefined value
Truthy(v) == v # Undefined /\ v # ""

\* a || b
OrElse(a, b) == IF Truthy(a) THEN a ELSE b

\* `${v}` : template interpolation of a string-or-undefined value
Interpolate(v) == IF v = Undefined THEN "undefined" ELSE v

\* --------------------------------------------------------------- inputs
ApiKeys == {Undefined, "", "sk-test"}
Base64s == {"b64-A", "b64-B"}
PhotoUris == {Undefined, "file:///photo.jpg"}
ImageUrls == {"https://img/1", "https://img/2"}
RemoteMessages == {"Billing hard limit reached", "Invalid image"}
StatusTexts == {"", "Bad Request"}
ThrownMessages == {"", "Network request failed"}

\* one entry of the `data` list of a response body: null, or an object
\* whose url is missing, empty or a reference
DataEntries ==
    [isNull : {TRUE}, url : {Undefined}]
        \cup [isNull : {FALSE}, url : {Undefined, ""} \cup ImageUrls]

DataLists == UNION {[1..n -> DataEntries] : n \in 0..MaxData}

\* what response.json() yields: a rejection (body is not JSON), null, or an
\* object with an optional `error` object and an optional `data` list
Bodies ==
    [parse : {"fail", "null"}, hasError : {FALSE}, errMessage : {Undefined},
     hasData : {FALSE}, data : {<<>>}]
        \cup [parse : {"object"}, hasError : {FALSE}, errMessage : {Undefined},
              hasData : {FALSE}, data : {<<>>}]
        \cup [parse : {"object"}, hasError : {TRUE},
              errMessage : {Undefined, ""} \cup RemoteMessages,
              hasData : {FALSE}, data : {<<>>}]
        \cup [parse : {"object"}, hasError : {FALSE}, errMessage : {Undefined},
              hasData : {TRUE}, data : DataLists]

NoBody ==
    [parse |-> "fail", hasError |-> FALSE, errMessage |-> Undefined,
     hasData |-> FALSE, data |-> <<>>]

\* how the awaited fetch() settles: it rejects with an Error, rejects with a
\* value that is not an Error, or resolves with a response
FetchOutcomes ==
    [type : {"throwError"}, message : ThrownMessages, ok : {FALSE},
     statusText : {""}, body : {NoBody}]
        \cup [type : {"throwOther"}, message : {""}, ok : {FALSE},
              statusText : {""}, body : {NoBody}]
        \cup [type : {"response"}, message : {""}, ok : BOOLEAN,
              statusText : StatusTexts, body : Bodies]

NoOutcome ==
    [type |-> "none", message |-> "", ok |-> FALSE, statusText |-> "",
     body |-> NoBody]

\* ------------------------------------------------ services/ai-transform.ts
ConfigErrorMessage ==
    "OpenAI API key not configured. Please add EXPO_PUBLIC_OPENAI_API_KEY to your environment variables."

ApiErrorPrefix == "OpenAI API Error: "
NoImageMessage == "No image generated in API response"
UnknownErrorMessage == "Unknown error occurred during transformation"
SyntaxErrorMessage == "JSON Parse error: Unexpected token"
TypeErrorMessage == "TypeError: Cannot read property of null"
MockImageUrl ==
    "https://images.unsplash.com/photo-1541961017774-22349e4a1262?w=800&h=1200&fit=crop&crop=entropy&auto=format&q=90"

\* a TransformationResult; a field the object literal leaves out is Undefined
Result(s, u, e) == [success |-> s, imageUrl |-> u, error |-> e]
NoResult == Result(FALSE, Undefined, Undefined)

\* const openaiApiKey = apiKey || process.env.EXPO_PUBLIC_OPENAI_API_KEY
ResolveKey(apiKey, env) == OrElse(apiKey, env)

\* a check that lets the empty string through as a credential
KeyMissing_OnlyUndefined(apiKey, env) == ResolveKey(apiKey, env) = Undefined

\* if (!openaiApiKey)
KeyMissing(apiKey, env) == ~Truthy(ResolveKey(apiKey, env))

\* the return of the `if (!openaiApiKey)` branch
ConfigErrorResult == Result(FALSE, Undefined, ConfigErrorMessage)

\* the catch block: error instanceof Error ? error.message : 'Unknown ...'
Caught(isError, message) ==
    Result(FALSE, Undefined, IF isError THEN message ELSE UnknownErrorMessage)

\* errorData.error?.message of a parsed error body
BodyErrorMessage(body) ==
    IF body.hasError THEN body.errMessage ELSE Undefined

\* an error branch that prefers the status text to the message of the body
NotOkResult_StatusFirst(o) ==
    CASE o.body.parse = "fail" -> Caught(TRUE, SyntaxErrorMessage)
      [] o.body.parse = "null" -> Caught(TRUE, TypeErrorMessage)
      [] OTHER ->
            Caught(TRUE,
                   ApiErrorPrefix
                       \o Interpolate(OrElse(o.statusText,
                                             BodyErrorMessage(o.body))))

\* the `if (!response.ok)` branch: the awaited json() rejects, or reading
\* .error of null throws, or the Error with the prefixed message is thrown;
\* each lands in the catch block
NotOkResult(o) ==
    CASE o.body.parse = "fail" -> Caught(TRUE, SyntaxErrorMessage)
      [] o.body.parse = "null" -> Caught(TRUE, TypeErrorMessage)
      [] OTHER ->
            Caught(TRUE,
                   ApiErrorPrefix
                       \o Interpolate(OrElse(BodyErrorMessage(o.body),
                                             o.statusText)))

\* a success-status branch that throws a string, not an Error, for a
\* missing or empty list
OkResult_ThrowsString(o) ==
    CASE o.body.parse = "fail" -> Caught(TRUE, SyntaxErrorMessage)
      [] o.body.parse = "null" -> Caught(TRUE, TypeErrorMessage)
      [] o.body.hasData /\ Len(o.body.data) > 0 ->
            IF o.body.data[1].isNull
                THEN Caught(TRUE, TypeErrorMessage)
                ELSE Result(TRUE, o.body.data[1].url, Undefined)
      [] OTHER -> Caught(FALSE, NoImageMessage)

\* the success-status branch: result.data && result.data.length > 0
OkResult(o) ==
    CASE o.body.parse = "fail" -> Caught(TRUE, SyntaxErrorMessage)
      [] o.body.parse = "null" -> Caught(TRUE, TypeErrorMessage)
      [] o.body.hasData /\ Len(o.body.data) > 0 ->
            IF o.body.data[1].isNull
                THEN Caught(TRUE, TypeErrorMessage)
                ELSE Result(TRUE, o.body.data[1].url, Undefined)
      [] OTHER -> Caught(TRUE, NoImageMessage)

\* transformToImpressionistPainting from the settled fetch to its return
SettleFetch(o) ==
    CASE o.type = "throwError" -> Caught(TRUE, o.message)
      [] o.type = "throwOther" -> Caught(FALSE, "")
      [] o.ok -> OkResult(o)
      [] OTHER -> NotOkResult(o)

\* mockTransformation's return value
MockResult == Result(TRUE, MockImageUrl, Undefined)

\* a check that takes an empty environment value for a credential
IsApiConfigured_AnyString(env) == env # Undefined

\* isApiConfigured(): !!process.env.EXPO_PUBLIC_OPENAI_API_KEY
IsApiConfigured(env) == Truthy(env)

\* the request fetch() sends: the bearer credential and the image
Request(key, image) == [auth |-> key, image |-> image]

\* ------------------------------------------------------------------ state
VARIABLES
    envKey,             \* process.env.EXPO_PUBLIC_OPENAI_API_KEY
    photoUri,           \* route parameter photoUri of the result screen
    base64,             \* route parameter base64 of the result screen
    clientPc,           \* a direct caller of the client: idle, fetch, mockTimer
    calls,              \* invocations of the transformation client, in order
    netRequests,        \* requests handed to fetch(), in order
    lastOutcome,        \* how the awaited fetch() of the last direct call settled
    lastResult,         \* the last TransformationResult a client call returned
    screen,             \* top of the navigation stack: result or capture
    effectRan,          \* the mount effect of ResultScreen has run
    transformedImage,   \* useState<string | null>(null)
    isProcessing,       \* useState(true)
    error,              \* useState<string | null>(null)
    isSaving,           \* useState(false)
    tPc,                \* transformImage: idle, demoDelay, mock, fetch, persist
    pendingUrl,         \* result.imageUrl held across the awaited setItem
    sPc,                \* saveToPhotos: idle, permission, download, createAsset,
                        \* getAlbums, addToAlbum, createAlbum, delete
    clock,              \* Date.now()
    fileUri,            \* the temporary file of the save attempt in flight
    failedAt,           \* the step whose call failed in the last save attempt
    attemptAlerts,      \* Alert.alert calls of the last save attempt, in order
    preSave,            \* the screen and device state when Save was pressed
    files,              \* files in FileSystem.documentDirectory
    assets,             \* assets of the media library created by the app
    albumExists,        \* the media library has an album titled Pocket Monet
    album,              \* assets placed in that album by the app
    alert,              \* the modal alert on display
    storage,            \* AsyncStorage item lastTransformedImage
    logs,               \* tags of the console.log / console.error sites reached
    lastPhoto,          \* capture screen: useState<string | null>(null)
    lPc                 \* capture screen, loadLastPhoto: idle, getItem

cfgVars == <<envKey, photoUri, base64>>
svcVars == <<calls, netRequests, lastOutcome, lastResult>>
uiVars == <<screen, effectRan, transformedImage, isProcessing, error, isSaving>>
tVars == <<tPc, pendingUrl>>
saveVars == <<sPc, clock, fileUri, failedAt, attemptAlerts, preSave>>
devVars == <<files, assets, albumExists, album>>
capVars == <<lastPhoto, lPc>>
vars ==
    <<cfgVars, clientPc, svcVars, uiVars, tVars, saveVars, devVars, alert,
      storage, logs, capVars>>

\* a call of the transformation client
Call(fn, image, key) == [fn |-> fn, base64 |-> image, apiKey |-> key]

\* the screen state and the device state saveToPhotos could touch
Snapshot ==
    [transformedImage |-> transformedImage, error |-> error,
     isProcessing |-> isProcessing, isSaving |-> isSaving, screen |-> screen,
     files |-> files, assets |-> assets, albumExists |-> albumExists,
     album |-> album]

\* the state every run starts from, apart from the screen on top and its
\* route parameters
InitCommon ==
    /\ envKey \in ApiKeys
    /\ clientPc = "idle"
    /\ calls = <<>>
    /\ netRequests = <<>>
    /\ lastOutcome = NoOutcome
    /\ lastResult = NoResult
    /\ effectRan = FALSE
    /\ transformedImage = Undefined
    /\ isProcessing = TRUE
    /\ error = Undefined
    /\ isSaving = FALSE
    /\ tPc = "idle"
    /\ pendingUrl = Undefined
    /\ sPc = "idle"
    /\ clock = 0
    /\ fileUri = 0
    /\ failedAt = "none"
    /\ attemptAlerts = <<>>
    /\ files = {}
    /\ assets = {}
    /\ album = {}
    /\ alert = "none"
    /\ logs = {}
    /\ lPc = "idle"

\* ------------------------------------- the client called on its own
ClientInit ==
    /\ InitCommon
    /\ screen = "capture"
    /\ photoUri = Undefined
    /\ base64 = Undefined
    /\ albumExists = FALSE
    /\ storage = Undefined
    /\ lastPhoto = Undefined
    /\ preSave = Snapshot

\* transformToImpressionistPainting(image, key) up to its first await
ClientCallTransform(image, key) ==
    /\ clientPc = "idle"
    /\ Len(calls) < MaxRequests
    /\ calls' = Append(calls, Call("transform", image, key))
    /\ lastOutcome' = NoOutcome
    /\ IF KeyMissing(key, envKey)
           THEN /\ lastResult' = ConfigErrorResult
                /\ UNCHANGED <<netRequests, clientPc>>
           ELSE /\ netRequests' =
                       Append(netRequests,
                              Request(ResolveKey(key, envKey), image))
                /\ lastResult' = NoResult
                /\ clientPc' = "fetch"
    /\ UNCHANGED <<cfgVars, capVars, uiVars, tVars, saveVars, devVars, alert, storage,
                   logs>>

\* the awaited fetch() settles and the call returns
ClientFetchSettles(o) ==
    /\ clientPc = "fetch"
    /\ lastOutcome' = o
    /\ lastResult' = SettleFetch(o)
    /\ clientPc' = "idle"
    /\ logs' = IF SettleFetch(o).success THEN logs ELSE logs \cup {"transform"}
    /\ UNCHANGED <<cfgVars, capVars, calls, netRequests, uiVars, tVars, saveVars,
                   devVars, alert, storage>>

\* mockTransformation() up to its await
ClientCallMock ==
    /\ clientPc = "idle"
    /\ Len(calls) < MaxRequests
    /\ calls' = Append(calls, Call("mock", Undefined, Undefined))
    /\ lastOutcome' = NoOutcome
    /\ lastResult' = NoResult
    /\ clientPc' = "mockTimer"
    /\ UNCHANGED <<cfgVars, capVars, netRequests, uiVars, tVars, saveVars, devVars,
                   alert, storage, logs>>

\* the 2500 ms timer of mockTransformation fires and the call returns
ClientMockTimer ==
    /\ clientPc = "mockTimer"
    /\ lastResult' = MockResult
    /\ clientPc' = "idle"
    /\ UNCHANGED <<cfgVars, capVars, calls, netRequests, lastOutcome, uiVars, tVars,
                   saveVars, devVars, alert, storage, logs>>

ClientNext ==
    \/ \E image \in Base64s, key \in ApiKeys : ClientCallTransform(image, key)
    \/ \E o \in FetchOutcomes : ClientFetchSettles(o)
    \/ ClientCallMock
    \/ ClientMockTimer

ClientSpec == ClientInit /\ [][ClientNext]_vars

\* --------------------------------------------------------- app/result.tsx
GenericTransformError == "Failed to transform your photo. Please try again."

\* the component is on the navigation stack; a state setter of a component
\* that has been popped has no effect
Mounted == screen = "result"
SetState(new, old) == IF Mounted THEN new ELSE old

ProcessingView == Mounted /\ isProcessing
ErrorView == Mounted /\ ~isProcessing /\ Truthy(error)
SuccessView == Mounted /\ ~isProcessing /\ ~Truthy(error)

\* no modal alert covers the screen and the mount effect has run
Interactive == effectRan /\ alert = "none"

Init ==
    /\ InitCommon
    /\ screen = "result"
    /\ photoUri \in PhotoUris
    /\ base64 \in Base64s
    /\ albumExists \in BOOLEAN
    /\ storage \in {Undefined, "https://img/0"}
    /\ lastPhoto = storage
    /\ preSave = Snapshot

\* a result handler that looks at success only, not at the image reference
HandleResult_SuccessOnly(r) ==
    IF r.success
        THEN /\ transformedImage' = SetState(r.imageUrl, transformedImage)
             /\ pendingUrl' = r.imageUrl
             /\ tPc' = "persist"
             /\ UNCHANGED <<error, isProcessing>>
        ELSE /\ error' = SetState(OrElse(r.error, GenericTransformError), error)
             /\ isProcessing' = SetState(FALSE, isProcessing)
             /\ tPc' = "idle"
             /\ UNCHANGED <<transformedImage, pendingUrl>>

\* transformImage from `if (result.success && result.imageUrl)` to the next
\* await, or through `finally` when no await follows
HandleResult(r) ==
    IF r.success /\ Truthy(r.imageUrl)
        THEN /\ transformedImage' = SetState(r.imageUrl, transformedImage)
             /\ pendingUrl' = r.imageUrl
             /\ tPc' = "persist"
             /\ UNCHANGED <<error, isProcessing>>
        ELSE /\ error' = SetState(OrElse(r.error, GenericTransformError), error)
             /\ isProcessing' = SetState(FALSE, isProcessing)
             /\ tPc' = "idle"
             /\ UNCHANGED <<transformedImage, pendingUrl>>

\* a retry that no longer has the image of the first attempt
RequestImage_Stale == IF calls = <<>> THEN base64 ELSE Undefined

\* the image transformImage hands to the client
RequestImage == base64

\* transformImage up to its first await
TransformImage ==
    /\ Len(calls) < MaxRequests
    /\ IF IsApiConfigured(envKey)
           THEN /\ calls' = Append(calls, Call("transform", RequestImage, Undefined))
                /\ lastOutcome' = NoOutcome
                /\ IF KeyMissing(Undefined, envKey)
                       THEN /\ lastResult' = ConfigErrorResult
                            /\ error' = ConfigErrorMessage
                            /\ isProcessing' = FALSE
                            /\ UNCHANGED <<netRequests, tPc, transformedImage,
                                           pendingUrl>>
                       ELSE /\ netRequests' =
                                   Append(netRequests,
                                          Request(ResolveKey(Undefined, envKey),
                                                  RequestImage))
                            /\ lastResult' = NoResult
                            /\ isProcessing' = TRUE
                            /\ error' = Undefined
                            /\ tPc' = "fetch"
                            /\ UNCHANGED <<transformedImage, pendingUrl>>
           ELSE /\ isProcessing' = TRUE
                /\ error' = Undefined
                /\ tPc' = "demoDelay"
                /\ UNCHANGED <<svcVars, transformedImage, pendingUrl>>

\* an effect without its dependency list, which runs after every render
MountEffect_EveryRender ==
    /\ Mounted
    /\ effectRan' = TRUE
    /\ IF Truthy(photoUri)
           THEN TransformImage
           ELSE UNCHANGED <<svcVars, transformedImage, isProcessing, error,
                            tPc, pendingUrl>>
    /\ UNCHANGED <<cfgVars, capVars, clientPc, screen, isSaving, saveVars, devVars,
                   alert, storage, logs>>

\* useEffect(() => { if (photoUri) transformImage() }, [photoUri])
MountEffect ==
    /\ Mounted
    /\ ~effectRan
    /\ effectRan' = TRUE
    /\ IF Truthy(photoUri)
           THEN TransformImage
           ELSE UNCHANGED <<svcVars, transformedImage, isProcessing, error,
                            tPc, pendingUrl>>
    /\ UNCHANGED <<cfgVars, capVars, clientPc, screen, isSaving, saveVars, devVars,
                   alert, storage, logs>>

\* the Try Again button of the error view
Retry ==
    /\ Interactive
    /\ ErrorView
    /\ TransformImage
    /\ UNCHANGED <<cfgVars, capVars, clientPc, screen, effectRan, isSaving, saveVars,
                   devVars, alert, storage, logs>>

\* the awaited transformToImpressionistPainting settles
FetchSettles(o) ==
    /\ tPc = "fetch"
    /\ lastResult' = SettleFetch(o)
    /\ logs' = IF SettleFetch(o).success THEN logs ELSE logs \cup {"transform"}
    /\ HandleResult(SettleFetch(o))
    /\ UNCHANGED <<cfgVars, capVars, clientPc, calls, netRequests,
                   lastOutcome, screen, effectRan, isSaving, saveVars,
                   devVars, alert, storage>>

\* the 2500 ms timer of the demo branch fires; mockTransformation is called
DemoDelayDone ==
    /\ tPc = "demoDelay"
    /\ calls' = Append(calls, Call("mock", Undefined, Undefined))
    /\ lastOutcome' = NoOutcome
    /\ lastResult' = NoResult
    /\ tPc' = "mock"
    /\ UNCHANGED <<cfgVars, capVars, clientPc, netRequests, uiVars, pendingUrl,
                   saveVars, devVars, alert, storage, logs>>

\* the awaited mockTransformation settles
MockSettles ==
    /\ tPc = "mock"
    /\ lastResult' = MockResult
    /\ HandleResult(MockResult)
    /\ UNCHANGED <<cfgVars, capVars, clientPc, calls, netRequests, lastOutcome, screen,
                   effectRan, isSaving, saveVars, devVars, alert, storage,
                   logs>>

\* a failed write that is reported on the screen
PersistFailure_SetsError ==
    /\ logs' = logs \cup {"persist"}
    /\ error' = SetState(GenericTransformError, error)

\* what the catch around AsyncStorage.setItem does with a failed write
PersistFailure == logs' = logs \cup {"persist"} /\ UNCHANGED error

\* a write that is dropped once the screen has been popped
PersistSettles_SkipsWhenGone(ok) ==
    /\ tPc = "persist"
    /\ IF ok
           THEN /\ storage' = IF Mounted THEN pendingUrl ELSE storage
                /\ UNCHANGED <<logs, error>>
           ELSE PersistFailure /\ UNCHANGED storage
    /\ isProcessing' = SetState(FALSE, isProcessing)
    /\ tPc' = "idle"
    /\ UNCHANGED <<cfgVars, capVars, clientPc, svcVars, screen, effectRan,
                   transformedImage, isSaving, pendingUrl, saveVars, devVars,
                   alert>>

\* the awaited AsyncStorage.setItem settles; then `finally`
PersistSettles(ok) ==
    /\ tPc = "persist"
    /\ IF ok
           THEN storage' = pendingUrl /\ UNCHANGED <<logs, error>>
           ELSE PersistFailure /\ UNCHANGED storage
    /\ isProcessing' = SetState(FALSE, isProcessing)
    /\ tPc' = "idle"
    /\ UNCHANGED <<cfgVars, capVars, clientPc, svcVars, screen, effectRan,
                   transformedImage, isSaving, pendingUrl, saveVars, devVars,
                   alert>>

\* Alert.alert(title, ...): the alert is put on display
ShowAlert(title) ==
    /\ alert' = title
    /\ attemptAlerts' = Append(attemptAlerts, title)

\* a return that leaves the Save button disabled
SaveFinally_KeepsSaving ==
    /\ isSaving' = isSaving
    /\ sPc' = "idle"

\* the `finally` of saveToPhotos
SaveFinally ==
    /\ isSaving' = SetState(FALSE, isSaving)
    /\ sPc' = "idle"

\* the outer catch of saveToPhotos, entered from the call named by step
SaveCatch(step) ==
    /\ failedAt' = step
    /\ logs' = logs \cup {"save"}
    /\ ShowAlert("Save Failed")
    /\ SaveFinally

\* a Save button that stays enabled, and a handler without the isSaving
\* guard
SavePress_NoGuard ==
    /\ Interactive
    /\ SuccessView
    /\ Truthy(transformedImage)
    /\ clock < MaxSaves
    /\ isSaving' = TRUE
    /\ sPc' = "permission"
    /\ failedAt' = "none"
    /\ attemptAlerts' = <<>>
    /\ preSave' = Snapshot
    /\ UNCHANGED <<cfgVars, capVars, clientPc, svcVars, screen, effectRan,
                   transformedImage, isProcessing, error, tVars, clock,
                   fileUri, devVars, alert, storage, logs>>

\* the Save button of the success view: saveToPhotos up to its first await
SavePress ==
    /\ Interactive
    /\ SuccessView
    /\ ~isSaving
    /\ Truthy(transformedImage)
    /\ clock < MaxSaves
    /\ isSaving' = TRUE
    /\ sPc' = "permission"
    /\ failedAt' = "none"
    /\ attemptAlerts' = <<>>
    /\ preSave' = Snapshot
    /\ UNCHANGED <<cfgVars, capVars, clientPc, svcVars, screen, effectRan,
                   transformedImage, isProcessing, error, tVars, clock,
                   fileUri, devVars, alert, storage, logs>>

\* the awaited MediaLibrary.requestPermissionsAsync settles
PermissionSettles(status) ==
    /\ sPc = "permission"
    /\ CASE status = "granted" ->
              /\ fileUri' = clock + 1
              /\ clock' = clock + 1
              /\ sPc' = "download"
              /\ UNCHANGED <<isSaving, failedAt, attemptAlerts, alert, logs>>
         [] status = "throw" ->
              /\ SaveCatch("permission")
              /\ UNCHANGED <<fileUri, clock>>
         [] OTHER ->
              /\ ShowAlert("Permission Required")
              /\ SaveFinally
              /\ UNCHANGED <<fileUri, clock, failedAt, logs>>
    /\ UNCHANGED <<cfgVars, capVars, clientPc, svcVars, screen, effectRan,
                   transformedImage, isProcessing, error, tVars, preSave,
                   devVars, storage>>

\* the awaited FileSystem.downloadAsync settles: with a uri, without one, or
\* by rejecting; only a download that resolved with a uri has written the file
DownloadSettles(outcome) ==
    /\ sPc = "download"
    /\ IF outcome = "ok"
           THEN /\ files' = files \cup {fileUri}
                /\ sPc' = "createAsset"
                /\ UNCHANGED <<isSaving, failedAt, attemptAlerts, alert, logs>>
           ELSE /\ SaveCatch("download")
                /\ UNCHANGED files
    /\ UNCHANGED <<cfgVars, capVars, clientPc, svcVars, screen, effectRan,
                   transformedImage, isProcessing, error, tVars, clock,
                   fileUri, preSave, assets, albumExists, album, storage>>

\* the awaited MediaLibrary.createAssetAsync settles
CreateAssetSettles(ok) ==
    /\ sPc = "createAsset"
    /\ IF ok
           THEN /\ assets' = assets \cup {fileUri}
                /\ sPc' = "getAlbums"
                /\ UNCHANGED <<isSaving, failedAt, attemptAlerts, alert, logs>>
           ELSE /\ SaveCatch("import")
                /\ UNCHANGED assets
    /\ UNCHANGED <<cfgVars, capVars, clientPc, svcVars, screen, effectRan,
                   transformedImage, isProcessing, error, tVars, clock,
                   fileUri, preSave, files, albumExists, album, storage>>

\* an album failure that reaches the outer catch
AlbumFailure_Rethrows == SaveCatch("album")

\* the inner catch around the album calls: the failure is logged and the
\* save goes on to the clean-up
AlbumFailure ==
    /\ failedAt' = "album"
    /\ logs' = logs \cup {"album"}
    /\ sPc' = "delete"
    /\ UNCHANGED <<isSaving, attemptAlerts, alert>>

\* the awaited MediaLibrary.getAlbumsAsync settles
GetAlbumsSettles(ok) ==
    /\ sPc = "getAlbums"
    /\ IF ok
           THEN /\ sPc' = IF albumExists THEN "addToAlbum" ELSE "createAlbum"
                /\ UNCHANGED <<isSaving, failedAt, attemptAlerts, alert, logs>>
           ELSE AlbumFailure
    /\ UNCHANGED <<cfgVars, capVars, clientPc, svcVars, screen, effectRan,
                   transformedImage, isProcessing, error, tVars, clock,
                   fileUri, preSave, devVars, storage>>

\* the awaited MediaLibrary.addAssetsToAlbumAsync settles
AddToAlbumSettles(ok) ==
    /\ sPc = "addToAlbum"
    /\ IF ok
           THEN /\ album' = album \cup {fileUri}
                /\ sPc' = "delete"
                /\ UNCHANGED <<isSaving, failedAt, attemptAlerts, alert, logs>>
           ELSE AlbumFailure /\ UNCHANGED album
    /\ UNCHANGED <<cfgVars, capVars, clientPc, svcVars, screen, effectRan,
                   transformedImage, isProcessing, error, tVars, clock,
                   fileUri, preSave, files, assets, albumExists, storage>>

\* the awaited MediaLibrary.createAlbumAsync settles
CreateAlbumSettles(ok) ==
    /\ sPc = "createAlbum"
    /\ IF ok
           THEN /\ albumExists' = TRUE
                /\ album' = album \cup {fileUri}
                /\ sPc' = "delete"
                /\ UNCHANGED <<isSaving, failedAt, attemptAlerts, alert, logs>>
           ELSE AlbumFailure /\ UNCHANGED <<albumExists, album>>
    /\ UNCHANGED <<cfgVars, capVars, clientPc, svcVars, screen, effectRan,
                   transformedImage, isProcessing, error, tVars, clock,
                   fileUri, preSave, files, assets, storage>>

\* the awaited FileSystem.deleteAsync settles; then the success alert, or
\* the outer catch; then `finally`
DeleteSettles(ok) ==
    /\ sPc = "delete"
    /\ IF ok
           THEN /\ files' = files \ {fileUri}
                /\ ShowAlert("Masterpiece Saved")
                /\ SaveFinally
                /\ UNCHANGED <<failedAt, logs>>
           ELSE /\ SaveCatch("delete")
                /\ UNCHANGED files
    /\ UNCHANGED <<cfgVars, capVars, clientPc, svcVars, screen, effectRan,
                   transformedImage, isProcessing, error, tVars, clock,
                   fileUri, preSave, assets, albumExists, album, storage>>

\* the capture screen comes into focus when the result screen is popped:
\* useFocusEffect calls loadLastPhoto, which awaits AsyncStorage.getItem
FocusCapture ==
    /\ lPc' = IF screen = "result" THEN "getItem" ELSE lPc
    /\ UNCHANGED lastPhoto

\* router.back()
RouterBack == screen' = "capture" /\ FocusCapture

\* every alert button goes back to the capture screen
DismissAlert_AlwaysBack ==
    /\ alert # "none"
    /\ alert' = "none"
    /\ RouterBack
    /\ UNCHANGED <<cfgVars, clientPc, svcVars, effectRan, transformedImage,
                   isProcessing, error, isSaving, tVars, saveVars, devVars,
                   storage, logs>>

\* the only button of the alert on display is pressed: Take Another of the
\* success alert goes back, OK of the other alerts only closes the alert
DismissAlert ==
    /\ alert # "none"
    /\ alert' = "none"
    /\ IF alert = "Masterpiece Saved"
           THEN RouterBack
           ELSE UNCHANGED <<screen, capVars>>
    /\ UNCHANGED <<cfgVars, clientPc, svcVars, effectRan, transformedImage,
                   isProcessing, error, isSaving, tVars, saveVars, devVars,
                   storage, logs>>

\* discardAndRetake: the Discard button of the success view
DiscardAndRetake ==
    /\ Interactive
    /\ SuccessView
    /\ RouterBack
    /\ UNCHANGED <<cfgVars, clientPc, svcVars, effectRan, transformedImage,
                   isProcessing, error, isSaving, tVars, saveVars, devVars,
                   alert, storage, logs>>

\* the Back to Camera button of the error view
BackToCamera ==
    /\ Interactive
    /\ ErrorView
    /\ RouterBack
    /\ UNCHANGED <<cfgVars, clientPc, svcVars, effectRan, transformedImage,
                   isProcessing, error, isSaving, tVars, saveVars, devVars,
                   alert, storage, logs>>

\* the back gesture of the navigation stack, available in every view
SystemBack ==
    /\ Interactive
    /\ Mounted
    /\ screen' = "capture"
    /\ FocusCapture
    /\ UNCHANGED <<cfgVars, clientPc, svcVars, effectRan, transformedImage,
                   isProcessing, error, isSaving, tVars, saveVars, devVars,
                   alert, storage, logs>>

\* a load that keeps a thumbnail it already has
LoadSettles_KeepsOld(ok) ==
    /\ lPc = "getItem"
    /\ lPc' = "idle"
    /\ IF ok
           THEN /\ lastPhoto' = IF Truthy(lastPhoto) THEN lastPhoto ELSE storage
                /\ UNCHANGED logs
           ELSE /\ logs' = logs \cup {"load"}
                /\ UNCHANGED lastPhoto
    /\ UNCHANGED <<cfgVars, clientPc, svcVars, uiVars, tVars, saveVars,
                   devVars, alert, storage>>

\* the awaited AsyncStorage.getItem of loadLastPhoto settles
LoadSettles(ok) ==
    /\ lPc = "getItem"
    /\ lPc' = "idle"
    /\ IF ok
           THEN /\ lastPhoto' = IF Truthy(storage) THEN storage ELSE lastPhoto
                /\ UNCHANGED logs
           ELSE /\ logs' = logs \cup {"load"}
                /\ UNCHANGED lastPhoto
    /\ UNCHANGED <<cfgVars, clientPc, svcVars, uiVars, tVars, saveVars,
                   devVars, alert, storage>>

Next ==
    \/ MountEffect
    \/ Retry
    \/ \E o \in FetchOutcomes : FetchSettles(o)
    \/ DemoDelayDone
    \/ MockSettles
    \/ \E ok \in BOOLEAN : PersistSettles(ok)
    \/ SavePress
    \/ \E status \in {"granted", "denied", "throw"} : PermissionSettles(status)
    \/ \E outcome \in {"ok", "noUri", "throw"} : DownloadSettles(outcome)
    \/ \E ok \in BOOLEAN : CreateAssetSettles(ok)
    \/ \E ok \in BOOLEAN : GetAlbumsSettles(ok)
    \/ \E ok \in BOOLEAN : AddToAlbumSettles(ok)
    \/ \E ok \in BOOLEAN : CreateAlbumSettles(ok)
    \/ \E ok \in BOOLEAN : DeleteSettles(ok)
    \/ DismissAlert
    \/ DiscardAndRetake
    \/ BackToCamera
    \/ SystemBack
    \/ \E ok \in BOOLEAN : LoadSettles(ok)

Spec == Init /\ [][Next]_vars

\* the awaited operations settle; the user is under no obligation to act
Settles ==
    \/ MountEffect
    \/ \E o \in FetchOutcomes : FetchSettles(o)
    \/ DemoDelayDone
    \/ MockSettles
    \/ \E ok \in BOOLEAN : PersistSettles(ok)

FairSpec == Spec /\ WF_vars(Settles)

\* ================================================================ claims
\* a direct call of the client has returned
ClientReturned == clientPc = "idle" /\ calls # <<>>

LastCall == calls[Len(calls)]

\* success gates the two optional fields of a TransformationResult
WellFormed(r) ==
    /\ r.success => Truthy(r.imageUrl) /\ r.error = Undefined
    /\ ~r.success => Truthy(r.error) /\ r.imageUrl = Undefined

\* C1: every result the client returns has exactly one of imageUrl and error
\* populated: a non-empty imageUrl and no error when success is true, a
\* non-empty error and no imageUrl when success is false.
C1_ResultWellFormed == ClientReturned => WellFormed(lastResult)

\* C2: a call of transformToImpressionistPainting with no credential in the
\* argument and none in the environment returns success = false with the
\* configuration message and hands no request to fetch().
C2_NoKeyNoRequest ==
    [][(/\ Len(calls') = Len(calls) + 1
        /\ calls'[Len(calls')].fn = "transform"
        /\ ~Truthy(calls'[Len(calls')].apiKey)
        /\ ~Truthy(envKey))
           => /\ lastResult' = Result(FALSE, Undefined, ConfigErrorMessage)
              /\ netRequests' = netRequests
              /\ clientPc' = "idle"]_vars

C2_Witness ==
    /\ ClientReturned
    /\ LastCall.fn = "transform"
    /\ LastCall.apiKey = ""
    /\ ~Truthy(envKey)
    /\ lastResult = ConfigErrorResult
    /\ netRequests = <<>>

\* the last call got a non-2xx response whose body is {error: {message: X}},
\* X a message (not the empty string)
ErrorBodyReturned ==
    /\ ClientReturned
    /\ lastOutcome.type = "response"
    /\ ~lastOutcome.ok
    /\ lastOutcome.body.parse = "object"
    /\ lastOutcome.body.hasError
    /\ Truthy(lastOutcome.body.errMessage)

\* C3 as stated: on a non-2xx response with body {error: {message: X}} the
\* result is success = false with the error message X, verbatim.
C3_MessageVerbatim ==
    ErrorBodyReturned
        => lastResult = Result(FALSE, Undefined, lastOutcome.body.errMessage)

\* C3 amended: on a non-2xx response with body {error: {message: X}} the
\* result is success = false with the error message "OpenAI API Error: "
\* followed by X.
C3_MessagePrefixed ==
    ErrorBodyReturned
        => lastResult
               = Result(FALSE, Undefined,
                        ApiErrorPrefix \o lastOutcome.body.errMessage)

C3_Witness ==
    /\ ErrorBodyReturned
    /\ lastOutcome.body.errMessage = "Invalid image"
    /\ lastOutcome.statusText = "Bad Request"
    /\ lastResult.error = "OpenAI API Error: Invalid image"

\* no save attempt is past its permission check
NoSaveUnderWay == sPc \in {"idle", "permission"}

\* C4: once a save attempt that passed the permission check has returned,
\* the temporary file it downloaded to is absent, wherever the attempt failed.
C4_TempFileRemoved ==
    \A f \in 1..clock : (f # fileUri \/ NoSaveUnderWay) => f \notin files

\* the step in which saveToPhotos returns from its permission-denied branch
PermissionDeniedStep ==
    /\ sPc = "permission"
    /\ sPc' = "idle"
    /\ alert' = "Permission Required"

\* C5: when permission is denied, saveToPhotos returns with no file
\* downloaded, no asset and no album created, the screen where it was and
\* transformedImage, error, isProcessing and isSaving as they were when Save
\* was pressed; its only effect is the permission alert.
C5_DeniedChangesNothing ==
    [][PermissionDeniedStep
           => /\ files' = preSave.files
              /\ assets' = preSave.assets
              /\ albumExists' = preSave.albumExists
              /\ album' = preSave.album
              /\ screen' = screen
              /\ storage' = storage
              /\ attemptAlerts' = <<"Permission Required">>
              /\ Mounted
                     => /\ transformedImage' = preSave.transformedImage
                        /\ error' = preSave.error
                        /\ isProcessing' = preSave.isProcessing
                        /\ isSaving' = preSave.isSaving]_vars

C5_Witness ==
    /\ Mounted
    /\ sPc = "idle"
    /\ alert = "Permission Required"
    /\ attemptAlerts = <<"Permission Required">>
    /\ ~isSaving
    /\ preSave.screen = "result"
    /\ files = {}

\* the step in which the alert that closed a save attempt is acknowledged
SaveAlertClosed ==
    /\ alert \in {"Masterpiece Saved", "Save Failed"}
    /\ alert' = "none"

\* C6 as stated: once a save attempt is over and its notification closed,
\* control is back on the capture screen, whether the save succeeded or
\* failed; and Discard is available in every success view.
C6_SaveAlwaysReturns ==
    /\ [][SaveAlertClosed => screen' = "capture"]_vars
    /\ [](Interactive /\ SuccessView => ENABLED DiscardAndRetake)

\* C6 amended: the Take Another button of the success alert returns control
\* to the capture screen; the OK button of the Save Failed alert leaves the
\* screen where it is; Discard is available in every success view, whatever
\* the state of a save, and goes back.
C6_SavedReturnsFailedStays ==
    /\ [][(alert = "Masterpiece Saved" /\ alert' = "none"
               => screen' = "capture")
          /\ (alert = "Save Failed" /\ alert' = "none"
                  => screen' = screen)]_vars
    /\ [](Interactive /\ SuccessView => ENABLED DiscardAndRetake)

C6_Witness ==
    /\ Mounted
    /\ SuccessView
    /\ sPc = "idle"
    /\ alert = "none"
    /\ attemptAlerts = <<"Save Failed">>
    /\ failedAt = "import"

\* C7: from every state that shows the processing view, a state that does
\* not show it is reached, provided the awaited operations settle.
C7_LeavesProcessing == ProcessingView ~> ~ProcessingView

\* C8: when the transformation has returned success = true with an image
\* reference and transformImage has run to its end, the screen shows the
\* success view with that reference, whether the write of the last-result
\* pointer succeeded or failed.
C8_SuccessDespitePersistFailure ==
    (Mounted /\ tPc = "idle" /\ lastResult.success
        /\ Truthy(lastResult.imageUrl))
        => SuccessView /\ transformedImage = lastResult.imageUrl

C8_Witness ==
    /\ Mounted
    /\ tPc = "idle"
    /\ lastResult.success
    /\ "persist" \in logs
    /\ storage # lastResult.imageUrl
    /\ SuccessView
    /\ transformedImage = lastResult.imageUrl

\* C9: every request of a visit, the first and each retry, carries the
\* base64 route parameter the screen was entered with.
C9_RetrySameInput ==
    /\ \A i \in 1..Len(netRequests) : netRequests[i].image = base64
    /\ \A i \in 1..Len(calls) :
           calls[i].fn = "transform" => calls[i].base64 = base64

C9_Witness ==
    /\ Len(netRequests) >= 2
    /\ netRequests[2].image = netRequests[1].image

\* a save attempt that passed the permission check has returned
SaveReturned ==
    sPc = "idle" /\ failedAt \in {"download", "import", "album", "delete"}

\* C10 as stated: a save attempt in which the download, the import, an
\* album call or the deletion failed shows exactly one alert, Save Failed.
C10_AnyFailureOneAlert == SaveReturned => attemptAlerts = <<"Save Failed">>

\* C10 amended: a save attempt in which the download, the import or the
\* deletion failed shows exactly one alert, Save Failed; one in which only
\* an album call failed shows exactly one alert, the success alert.
C10_FailureOneAlertAlbumIgnored ==
    SaveReturned
        => attemptAlerts
               = IF failedAt = "album"
                     THEN <<"Masterpiece Saved">>
                     ELSE <<"Save Failed">>

C10_Witness ==
    /\ sPc = "idle"
    /\ failedAt = "album"
    /\ "album" \in logs
    /\ attemptAlerts = <<"Masterpiece Saved">>
    /\ fileUri \in assets

\* the last call got a non-2xx response whose body is not JSON
UnparseableErrorReturned ==
    /\ ClientReturned
    /\ lastOutcome.type = "response"
    /\ ~lastOutcome.ok
    /\ lastOutcome.body.parse = "fail"

\* C11: on a non-2xx response whose body cannot be parsed the result is
\* success = false with a message that falls back to the status text of the
\* response (alone, or after the prefix of the API errors).
C11_UnparseableFallsBackToStatusText ==
    UnparseableErrorReturned
        => /\ ~lastResult.success
           /\ lastResult.error
                  \in {lastOutcome.statusText,
                       ApiErrorPrefix \o lastOutcome.statusText}

\* the last call got a success status and a body whose data list is absent
\* or empty
EmptyListReturned ==
    /\ ClientReturned
    /\ lastOutcome.type = "response"
    /\ lastOutcome.ok
    /\ lastOutcome.body.parse = "object"
    /\ ~lastOutcome.body.hasData \/ lastOutcome.body.data = <<>>

\* C12: on a success status with an absent or empty data list the result is
\* success = false with the message "No image generated in API response" and
\* no imageUrl.
C12_EmptyListNoImage ==
    EmptyListReturned => lastResult = Result(FALSE, Undefined, NoImageMessage)

C12_Witness ==
    /\ EmptyListReturned
    /\ lastOutcome.body.hasData
    /\ lastOutcome.body.data = <<>>
    /\ lastResult.error = "No image generated in API response"
    /\ Len(netRequests) = Len(calls)

\* C13 as stated: a visit of the result screen calls the transformation
\* client at most once.
C13_AtMostOneRequest == Len(calls) <= 1 /\ Len(netRequests) <= 1

\* C13 amended: a visit calls the transformation client once on entry; every
\* further call is made by a press of Try Again in the error view, one call
\* per press.
C13_OneRequestPerAttempt ==
    [][(Len(calls') # Len(calls) \/ Len(netRequests') # Len(netRequests))
           => /\ Len(calls') = Len(calls) + 1
              /\ Len(netRequests') <= Len(netRequests) + 1
              /\ Len(netRequests') >= Len(netRequests)
              /\ Len(calls) >= 1 => Interactive /\ ErrorView]_vars

C13_Witness ==
    /\ Len(calls) = 2
    /\ Len(netRequests) = 2
    /\ tPc = "fetch"
    /\ ProcessingView

\* a step of transformImage that handles a response which arrived after the
\* result screen was popped
LateStep ==
    /\ ~Mounted
    /\ tPc' # tPc
    /\ tPc = "persist" => transformedImage # pendingUrl

\* C14 as stated: a response that arrives after the user has left the result
\* screen changes nothing: not the screen state, not the alert, not the
\* persisted last-result pointer.
C14_LateResponseNotObserved ==
    [][LateStep
           => UNCHANGED <<transformedImage, error, isProcessing, isSaving,
                          screen, alert, lastPhoto, storage>>]_vars

\* C14 amended: a response that arrives after the user has left the result
\* screen changes no screen state and shows nothing, but transformImage runs
\* on: the write of a successful result's reference still overwrites the
\* last-result pointer, unless the write fails.
C14_LateResponseStillPersisted ==
    [][LateStep
           => /\ UNCHANGED <<transformedImage, error, isProcessing, isSaving,
                             screen, alert, lastPhoto>>
              /\ tPc # "persist" => storage' = storage
              /\ (tPc = "persist" /\ logs' = logs) => storage' = pendingUrl]_vars

C14_Witness ==
    /\ ~Mounted
    /\ tPc = "idle"
    /\ isProcessing
    /\ transformedImage = Undefined
    /\ lastResult.success
    /\ storage = lastResult.imageUrl
    /\ lastPhoto # storage
    /\ lPc = "idle"

\* C15: when transformImage has run to its end after a successful
\* transformation and no write has failed, the last-result pointer holds the
\* image reference of that transformation; nothing but the write of
\* transformImage changes the pointer.
C15_LastWriteWins ==
    /\ [](tPc = "idle" /\ lastResult.success /\ "persist" \notin logs
              => Truthy(storage) /\ storage = lastResult.imageUrl)
    /\ [][storage' # storage => tPc = "persist"]_vars

\* C16: without a credential in the environment a visit hands nothing to
\* fetch(), calls only mockTransformation, gets success = true with the
\* placeholder reference, never sets an error, and shows the success view
\* with the placeholder once transformImage has run to its end.
C16_DemoMode ==
    ~Truthy(envKey)
        => /\ netRequests = <<>>
           /\ \A i \in 1..Len(calls) : calls[i].fn = "mock"
           /\ ~Truthy(error)
           /\ (tPc = "idle" /\ calls # <<>>)
                  => /\ lastResult = Result(TRUE, MockImageUrl, Undefined)
                     /\ Mounted
                            => SuccessView /\ transformedImage = MockImageUrl

C16_Witness ==
    /\ envKey = ""
    /\ SuccessView
    /\ transformedImage = MockImageUrl
    /\ storage = MockImageUrl
    /\ netRequests = <<>>
    /\ calls # <<>>

\* C17: the transformation and the save are never in flight together, and
\* nothing is in flight in any state in which a handler that starts one of
\* them (the mount effect, Try Again, Save) can run.
C17_OneOperationInFlight ==
    /\ tPc = "idle" \/ sPc = "idle"
    /\ ENABLED MountEffect => tPc = "idle" /\ sPc = "idle"
    /\ ENABLED Retry => tPc = "idle" /\ sPc = "idle"
    /\ ENABLED SavePress => tPc = "idle" /\ sPc = "idle"

C17_Witness ==
    /\ clock = 1
    /\ sPc = "permission"
    /\ isSaving
    /\ SuccessView
    /\ Len(calls) = 2
    /\ tPc = "idle"

\* C18: the success view always has an image reference to show; error and
\* transformedImage are never both set; a result with success = true and no
\* usable imageUrl ends in the error view with the generic message.
C18_SuccessViewHasImage ==
    /\ SuccessView => Truthy(transformedImage)
    /\ ~(Truthy(error) /\ Truthy(transformedImage))
    /\ (Mounted /\ tPc = "idle" /\ lastResult.success
            /\ ~Truthy(lastResult.imageUrl))
           => ErrorView /\ error = GenericTransformError

C18_Witness ==
    /\ lastResult.success
    /\ lastResult.imageUrl = ""
    /\ ErrorView
    /\ error = GenericTransformError
    /\ transformedImage = Undefined

\* the result screen was left from its success view
LeftFromSuccess == ~Mounted /\ ~isProcessing /\ ~Truthy(error)

\* the capture screen has read the pointer after coming into focus
LoadDone == ~Mounted /\ lPc = "idle" /\ "load" \notin logs

\* C19: when the result screen is left from the success view and the write
\* did not fail, the pointer already holds the reference that was shown, and
\* the capture screen reads that reference on focus; the thumbnail differs
\* from the pointer only if the screen was left while still processing.
C19_ThumbnailIsShownImage ==
    /\ (LeftFromSuccess /\ "persist" \notin logs)
           => /\ storage = transformedImage
              /\ LoadDone => lastPhoto = transformedImage
    /\ (LoadDone /\ Truthy(storage) /\ lastPhoto # storage) => isProcessing

C19_Witness ==
    /\ LeftFromSuccess
    /\ LoadDone
    /\ attemptAlerts = <<"Masterpiece Saved">>
    /\ alert = "none"
    /\ Truthy(transformedImage)
    /\ lastPhoto = transformedImage
    /\ lastPhoto # "https://img/0"

====
